---- MODULE Spec2Model ----
(***************************************************************************)
(* Asset lifecycle and ownership enforcement of the media service:        *)
(* upload_new_asset, retrieve_single_asset, retrieve_asset_collection,    *)
(* find_assets, modify_asset_metadata and remove_asset of routes_media.py, *)
(* the ownership guard and the preview-key derivation of media_helpers.py, *)
(* and the validation functions of utils.py.                               *)
(*                                                                         *)
(* Strings that the code cuts and pastes (file names, storage keys, URLs)  *)
(* are sequences of tokens; the token "thumb_" stands for the six          *)
(* characters of the preview marker.  Python's None is NoneS for such a    *)
(* string, NoneD for a plain text field and NoneL for a list.              *)
(***************************************************************************)
EXTENDS Integers, Sequences, FiniteSets, TLC

VARIABLES
    media,      \* metadata store: asset id -> asset record (cosmos_db)
    blobs,      \* blob store: the set of storage keys that hold a blob
    req,        \* request slot -> the request in flight there, with its locals
    resp,       \* the response of the request that completed last
    nextId,     \* the next fresh asset identifier (uuid4), one per upload accepted
    clock,      \* what datetime.utcnow() reads
    notice,     \* the notify_logic_app task scheduled last
    arg,        \* input of the function under study (pure-function runs)
    out         \* its result

vars == <<media, blobs, req, resp, nextId, clock, notice, arg, out>>
storeVars == <<media, blobs, req, resp, nextId, clock, notice>>
respVars == <<resp, notice>>
pureVars == <<arg, out>>

---------------------------------------------------------------------------
(* Bounds of the model *)

MaxAssets == 1          \* uploads that pass validation
MaxClock == 2           \* the last reading of the clock
MaxLen == 4             \* the longest stream given to the size check alone

AssetIds == 1..MaxAssets
Slots == {1, 2}          \* request slots: a request and one concurrent with it

---------------------------------------------------------------------------
(* Values *)

NoneS == <<"<None>">>
NoneD == "<None>"
NoneL == <<"<None>">>
Missing == <<"<missing>">>      \* a key the dictionary does not have
Unset == "<unset>"              \* a key field_updates does not have
UnsetL == <<"<unset>">>
EmptyS == <<>>

Owners == {<<"a">>, <<"b">>}    \* account identifiers (uuid4 strings)
THUMB == <<"thumb_">>           \* the preview marker

\* Original file names offered by clients: one that occurs nowhere else in a
\* storage key, one that also occurs in an account identifier, one with a path.
FileNames == {<<"x">>, <<"a">>, <<"d", "/", "x">>}

---------------------------------------------------------------------------
(* Python string operations *)

\* s[i:]
Drop(s, n) == IF n >= Len(s) THEN <<>> ELSE SubSeq(s, n + 1, Len(s))

\* s.startswith(p)
StartsWith(s, p) == Len(p) <= Len(s) /\ SubSeq(s, 1, Len(p)) = p

\* p in s
RECURSIVE Contains(_, _)
Contains(s, p) ==
    IF StartsWith(s, p) THEN TRUE
    ELSE IF s = <<>> THEN FALSE
    ELSE Contains(Tail(s), p)

\* s.split("/")[-1]
RECURSIVE LastSegment(_)
LastSegment(s) ==
    IF s = <<>> THEN <<>>
    ELSE IF s[Len(s)] = "/" THEN <<>>
    ELSE LastSegment(SubSeq(s, 1, Len(s) - 1)) \o <<s[Len(s)]>>

\* s.replace("", new): new before every character and at the end
RECURSIVE Intersperse(_, _)
Intersperse(s, new) ==
    IF s = <<>> THEN new
    ELSE new \o <<Head(s)>> \o Intersperse(Tail(s), new)

\* s.replace(old, new) for a non-empty old: every non-overlapping occurrence,
\* left to right
RECURSIVE ReplaceScan(_, _, _)
ReplaceScan(s, old, new) ==
    IF s = <<>> THEN <<>>
    ELSE IF StartsWith(s, old) THEN new \o ReplaceScan(Drop(s, Len(old)), old, new)
    ELSE <<Head(s)>> \o ReplaceScan(Tail(s), old, new)

\* s.replace(old, new)
Replace(s, old, new) ==
    IF old = <<>> THEN Intersperse(s, new) ELSE ReplaceScan(s, old, new)

---------------------------------------------------------------------------
(* Asset records *)

\* isoformat() of a clock reading
isoformat(t) == <<"iso", t>>
NoTime == <<"iso", -1>>

NoDoc ==
    [id |-> 0, userId |-> EmptyS, fileName |-> EmptyS, originalFileName |-> EmptyS,
     mediaType |-> "", fileSize |-> 0, mimeType |-> "", blobUrl |-> EmptyS,
     thumbnailUrl |-> NoneS, description |-> NoneD, tags |-> NoneL,
     uploadedAt |-> NoTime, updatedAt |-> NoTime]

\* Python truthiness of a string-valued field
Truthy(s) == s # NoneS /\ s # Missing /\ s # EmptyS

---------------------------------------------------------------------------
(* Configuration (config.settings) *)

allowed_image_types_list == {"image/png"}
allowed_video_types_list == {"video/mp4"}
max_file_size_bytes == 2

---------------------------------------------------------------------------
(* Storage Gateway (blob_storage) and Metadata Store (cosmos_db) *)

\* The storage key upload_file gives a blob: the owner's namespace, then the
\* name asked for.
BlobName(owner, name) == owner \o <<"/">> \o name

\* The retrieval URL of a storage key.
BlobUrl(key) == <<"https://blobs/">> \o key

\* The account whose namespace a storage key lies in.
InNamespace(key, owner) == StartsWith(key, owner \o <<"/">>)

\* cosmos_db.get_media_by_id(id, user): the query is scoped by the owner, so
\* a record of another account is absent for it.
get_media_by_id(id, user) ==
    IF id \in DOMAIN media /\ media[id].userId = user THEN media[id] ELSE NoDoc

\* cosmos_db.get_user_media / search_media: the owner's records, in id order,
\* cut to the page asked for (pages count from 1).
RECURSIVE SortedIds(_)
SortedIds(S) ==
    IF S = {} THEN <<>>
    ELSE LET m == CHOOSE x \in S : \A y \in S : x <= y
         IN <<m>> \o SortedIds(S \ {m})

PageOf(ids, page, page_size) ==
    LET all == SortedIds(ids)
        lo == (page - 1) * page_size + 1
        hi == IF page * page_size < Len(all) THEN page * page_size ELSE Len(all)
    IN {all[i] : i \in lo..hi}

Matches(doc, query) ==
    \/ Contains(doc.originalFileName, query)
    \/ doc.description = query[1]
    \/ (doc.tags # NoneL /\ \E i \in 1..Len(doc.tags) : doc.tags[i] = query[1])

get_user_media(user, page, page_size, media_type) ==
    LET ids == {i \in DOMAIN media :
                    /\ media[i].userId = user
                    /\ (media_type # NoneD => media[i].mediaType = media_type)}
    IN [items |-> {media[i] : i \in PageOf(ids, page, page_size)},
        total |-> Cardinality(ids)]

search_media(user, query, page, page_size) ==
    LET ids == {i \in DOMAIN media :
                    media[i].userId = user /\ Matches(media[i], query)}
    IN [items |-> {media[i] : i \in PageOf(ids, page, page_size)},
        total |-> Cardinality(ids)]

---------------------------------------------------------------------------
(* media_helpers.py *)

\* retrieve_and_confirm_asset_ownership: the record, or the status raised.
retrieve_and_confirm_asset_ownership(asset_identifier, account_identifier) ==
    LET asset_document == get_media_by_id(asset_identifier, account_identifier)
    IN IF asset_document = NoDoc
       THEN [status |-> 404, doc |-> NoDoc]
       ELSE IF asset_document.userId # account_identifier
       THEN [status |-> 403, doc |-> NoDoc]
       ELSE [status |-> 0, doc |-> asset_document]

\* confirm_asset_presence: the pre-scoped mode, not-found only.
confirm_asset_presence(asset_identifier, account_identifier) ==
    LET asset_document == get_media_by_id(asset_identifier, account_identifier)
    IN IF asset_document = NoDoc
       THEN [status |-> 404, doc |-> NoDoc]
       ELSE [status |-> 0, doc |-> asset_document]

\* Variant: the key is derived whether or not the record has a preview URL.
parse_preview_storage_identifier_rederived(asset_document) ==
    IF asset_document.originalFileName \in {Missing, NoneS} THEN NoneS
    ELSE IF asset_document.fileName \in {Missing, NoneS} THEN NoneS
    ELSE LET source_filename == LastSegment(asset_document.originalFileName)
         IN Replace(asset_document.fileName, source_filename,
                    THUMB \o source_filename)

\* parse_preview_storage_identifier: the preview's storage key, or NoneS.
\* A missing or None file name raises inside the try and gives NoneS.
parse_preview_storage_identifier(asset_document) ==
    IF ~Truthy(asset_document.thumbnailUrl) THEN NoneS
    ELSE IF asset_document.originalFileName \in {Missing, NoneS} THEN NoneS
    ELSE IF asset_document.fileName \in {Missing, NoneS} THEN NoneS
    ELSE LET source_filename == LastSegment(asset_document.originalFileName)
         IN Replace(asset_document.fileName, source_filename,
                    THUMB \o source_filename)

---------------------------------------------------------------------------
(* utils.py *)

\* str.lower() on the content types of the model
Lower(mime) ==
    CASE mime = "IMAGE/PNG" -> "image/png"
      [] mime = "Video/MP4" -> "video/mp4"
      [] mime = "TEXT/PLAIN" -> "text/plain"
      [] OTHER -> mime

\* Variant: a content type outside both lists is taken for a video.
determine_file_category_lenient(content_type) ==
    IF content_type = NoneD THEN [status |-> 500, category |-> ""]
    ELSE IF Lower(content_type) \in allowed_image_types_list
    THEN [status |-> 0, category |-> "image"]
    ELSE [status |-> 0, category |-> "video"]

\* determine_file_category: the category, or the status raised.  A part with
\* no content type has content_type None, and None.lower() raises
\* AttributeError, which the route turns into 500.
determine_file_category(content_type) ==
    IF content_type = NoneD THEN [status |-> 500, category |-> ""]
    ELSE LET mime_type == Lower(content_type)
         IN IF mime_type \in allowed_image_types_list
            THEN [status |-> 0, category |-> "image"]
            ELSE IF mime_type \in allowed_video_types_list
            THEN [status |-> 0, category |-> "video"]
            ELSE [status |-> 400, category |-> ""]

\* Variant: a stream as long as the limit is refused too.
verify_file_constraints_inclusive(stream, size_limit) ==
    LET limit == IF size_limit = -1 THEN max_file_size_bytes ELSE size_limit
        after == [len |-> stream.len, pos |-> 0]
    IN IF stream.len >= limit
       THEN [status |-> 413, size |-> 0, stream |-> after]
       ELSE [status |-> 0, size |-> stream.len, stream |-> after]

\* verify_file_constraints on a stream [len, pos]: seek(0, 2), tell(),
\* seek(0), then the comparison.  size_limit -1 stands for the default None.
verify_file_constraints(stream, size_limit) ==
    LET limit == IF size_limit = -1 THEN max_file_size_bytes ELSE size_limit
        measured_size == stream.len
        after == [len |-> stream.len, pos |-> 0]
    IN IF measured_size > limit
       THEN [status |-> 413, size |-> 0, stream |-> after]
       ELSE [status |-> 0, size |-> measured_size, stream |-> after]

\* json.loads on the label strings of the model
JsonLoads(text) ==
    CASE text = "[\"t\"]" -> [ok |-> TRUE, isList |-> TRUE, list |-> <<"t">>]
      [] text = "[]" -> [ok |-> TRUE, isList |-> TRUE, list |-> <<>>]
      [] text = "3" -> [ok |-> TRUE, isList |-> FALSE, list |-> <<>>]
      [] text = "{}" -> [ok |-> TRUE, isList |-> FALSE, list |-> <<>>]
      [] OTHER -> [ok |-> FALSE, isList |-> FALSE, list |-> <<>>]

\* The label block of upload_new_asset: no label string (None or "") gives
\* None; a JSONDecodeError becomes 400; the ValueError raised for a value
\* that is no list is not a JSONDecodeError and reaches the route's
\* except Exception, 500.
ParseLabels(label_data) ==
    IF label_data = NoneD \/ label_data = "" THEN [status |-> 0, list |-> NoneL]
    ELSE LET j == JsonLoads(label_data)
         IN IF ~j.ok THEN [status |-> 400, list |-> NoneL]
            ELSE IF ~j.isList THEN [status |-> 500, list |-> NoneL]
            ELSE [status |-> 0, list |-> j.list]

---------------------------------------------------------------------------
(* Requests *)

NoUpd == [description |-> Unset, tags |-> UnsetL, updatedAt |-> NoTime]

\* The JSON body of an update: each field a value, null (None) or not there
\* (Unset).
NoBody == [description |-> Unset, tags |-> UnsetL]

\* What an upload declares of its file part and its label field: the content
\* type, the length of the stream, the label string.
NoInput == [content_type |-> NoneD, size |-> 0, tags |-> NoneD]

\* A free request slot.  dels: the keys blob_storage.delete_file was called
\* with, in order.
Idle ==
    [op |-> "none", pc |-> "idle", caller |-> EmptyS, input |-> NoInput,
     body |-> NoBody, mid |-> 0, doc |-> NoDoc, upd |-> NoUpd, pkey |-> NoneS,
     dels |-> <<>>, ev |-> {}]

NoResp ==
    [op |-> "none", caller |-> EmptyS, input |-> NoInput, status |-> 0, ev |-> {},
     owners |-> {}, present |-> FALSE]

\* The route returns or raises: the slot is freed and the response recorded.
\* input: what an upload declared; ev: what happened on the way
\* (which collaborator call failed, whether notify_logic_app was scheduled);
\* owners: the owner identifiers of the records in the response body;
\* present: whether the record addressed exists in the store the response
\* leaves behind.  A route that comes to asyncio.create_task(notify_logic_app())
\* has "notified" in ev, and its task is scheduled as it returns.
Respond(s, op, caller, input, mid, status, ev, body, store) ==
    /\ req' = [req EXCEPT ![s] = Idle]
    /\ resp' = [op |-> op, caller |-> caller, input |-> input, status |-> status,
                ev |-> ev, owners |-> {d.userId : d \in body},
                present |-> mid \in DOMAIN store]
    /\ notice' = IF "notified" \in ev THEN "scheduled" ELSE notice

\* What the guard's caller is to the record asked for (for the record only:
\* the code does not read it).
Relation(media_id, caller) ==
    IF media_id \notin DOMAIN media THEN {"absent"}
    ELSE IF media[media_id].userId = caller THEN {"own"} ELSE {"foreign"}

---------------------------------------------------------------------------
(* The clock *)

\* Time passes between two readings of datetime.utcnow(); two readings with
\* no Tick between them are the same instant.
Tick ==
    /\ clock < MaxClock
    /\ clock' = clock + 1
    /\ UNCHANGED <<media, blobs, req, respVars, nextId, pureVars>>

---------------------------------------------------------------------------
(* notify_logic_app *)

\* Lines 28-50, run by the event loop after the route that scheduled it has
\* returned: no URL configured, the post answered, or an exception logged.  A
\* task that never completes stays scheduled.
notify_logic_app ==
    /\ notice = "scheduled"
    /\ \E outcome \in {"skipped", "posted", "failed"} : notice' = outcome
    /\ UNCHANGED <<media, blobs, req, resp, nextId, clock, pureVars>>

---------------------------------------------------------------------------
(* upload_new_asset *)

\* Lines 63-90: classification, size check, label parsing, reading the body.
\* The identifier uuid4 will give the record (line 119) is fixed here, as the
\* ordinal of the upload among those that passed validation; at most
\* MaxAssets uploads pass.
upload_new_asset_validate(s, caller, filename, content_type, size, description, tags) ==
    /\ req[s].pc = "idle"
    /\ nextId <= MaxAssets
    /\ LET cat == determine_file_category(content_type)
           sz == verify_file_constraints([len |-> size, pos |-> 0], -1)
           lab == ParseLabels(tags)
           failed == IF cat.status # 0 THEN cat.status
                     ELSE IF sz.status # 0 THEN sz.status
                     ELSE lab.status
           input == [content_type |-> content_type, size |-> size, tags |-> tags]
       IN IF failed # 0
          THEN /\ Respond(s, "create", caller, input, 0, failed, {"invalid"},
                          {}, media)
               /\ UNCHANGED nextId
          ELSE /\ nextId' = nextId + 1
               /\ req' = [req EXCEPT ![s] =
                       [Idle EXCEPT !.op = "create", !.pc = "put_primary",
                                    !.caller = caller, !.input = input,
                                    !.mid = nextId,
                                    !.doc = [NoDoc EXCEPT
                                        !.userId = caller,
                                        !.originalFileName = filename,
                                        !.mediaType = cat.category,
                                        !.fileSize = sz.size,
                                        !.mimeType = content_type,
                                        !.description = description,
                                        !.tags = lab.list]]]
               /\ UNCHANGED respVars
    /\ UNCHANGED <<media, blobs, clock, pureVars>>

\* Variant: a failed primary write is logged and the upload goes on.
upload_new_asset_store_swallow(s) ==
    /\ req[s].pc = "put_primary"
    /\ LET r == req[s]
           key == BlobName(r.caller, r.doc.originalFileName)
       IN \/ /\ blobs' = blobs \cup {key}
             /\ req' = [req EXCEPT ![s].doc.fileName = key,
                                   ![s].doc.blobUrl = BlobUrl(key),
                                   ![s].ev = @ \cup {"primary_put_ok"},
                                   ![s].pc = "persist"]
          \/ /\ req' = [req EXCEPT ![s].ev = @ \cup {"primary_put_raised"},
                                   ![s].pc = "persist"]
             /\ UNCHANGED blobs
    /\ UNCHANGED <<media, respVars, nextId, clock, pureVars>>

\* Variant: a preview is made of every upload, whatever its category.
upload_new_asset_store_previews_all(s) ==
    /\ req[s].pc = "put_primary"
    /\ LET r == req[s]
           key == BlobName(r.caller, r.doc.originalFileName)
       IN \/ /\ blobs' = blobs \cup {key}
             /\ req' = [req EXCEPT ![s].doc.fileName = key,
                                   ![s].doc.blobUrl = BlobUrl(key),
                                   ![s].ev = @ \cup {"primary_put_ok"},
                                   ![s].pc = "put_preview"]
             /\ UNCHANGED respVars
          \/ /\ Respond(s, "create", r.caller, r.input, r.mid, 500,
                        r.ev \cup {"primary_put_raised"}, {}, media)
             /\ UNCHANGED blobs
    /\ UNCHANGED <<media, nextId, clock, pureVars>>

\* Lines 92-98: blob_storage.upload_file of the primary stream.
upload_new_asset_store(s) ==
    /\ req[s].pc = "put_primary"
    /\ LET r == req[s]
           key == BlobName(r.caller, r.doc.originalFileName)
       IN \/ /\ blobs' = blobs \cup {key}
             /\ req' = [req EXCEPT ![s].doc.fileName = key,
                                   ![s].doc.blobUrl = BlobUrl(key),
                                   ![s].ev = @ \cup {"primary_put_ok"},
                                   ![s].pc = IF r.doc.mediaType = "image"
                                             THEN "put_preview" ELSE "persist"]
             /\ UNCHANGED respVars
          \/ /\ Respond(s, "create", r.caller, r.input, r.mid, 500,
                        r.ev \cup {"primary_put_raised"}, {}, media)
             /\ UNCHANGED blobs
    /\ UNCHANGED <<media, nextId, clock, pureVars>>

\* Variant: the preview write is outside the try, so its failure ends the
\* upload.
upload_new_asset_preview_fatal(s) ==
    /\ req[s].pc = "put_preview"
    /\ LET r == req[s]
           key == BlobName(r.caller, THUMB \o r.doc.originalFileName)
       IN \/ /\ req' = [req EXCEPT ![s].ev = @ \cup {"preview_none"},
                                   ![s].pc = "persist"]
             /\ UNCHANGED <<blobs, respVars>>
          \/ /\ blobs' = blobs \cup {key}
             /\ req' = [req EXCEPT ![s].doc.thumbnailUrl = BlobUrl(key),
                                   ![s].pkey = key,
                                   ![s].ev = @ \cup {"preview_put_ok"},
                                   ![s].pc = "persist"]
             /\ UNCHANGED respVars
          \/ /\ Respond(s, "create", r.caller, r.input, r.mid, 500,
                        r.ev \cup {"preview_put_raised"}, {}, media)
             /\ UNCHANGED blobs
    /\ UNCHANGED <<media, nextId, clock, pureVars>>

\* Lines 100-116: generate_thumbnail, then upload_file of the preview.
upload_new_asset_preview(s) ==
    /\ req[s].pc = "put_preview"
    /\ LET r == req[s]
           key == BlobName(r.caller, THUMB \o r.doc.originalFileName)
       IN \/ \* generate_thumbnail returns None
             /\ req' = [req EXCEPT ![s].ev = @ \cup {"preview_none"},
                                   ![s].pc = "persist"]
             /\ UNCHANGED blobs
          \/ \* the preview is written
             /\ blobs' = blobs \cup {key}
             /\ req' = [req EXCEPT ![s].doc.thumbnailUrl = BlobUrl(key),
                                   ![s].pkey = key,
                                   ![s].ev = @ \cup {"preview_put_ok"},
                                   ![s].pc = "persist"]
          \/ \* upload_file raises; the warning is logged
             /\ req' = [req EXCEPT ![s].ev = @ \cup {"preview_put_raised"},
                                   ![s].pc = "persist"]
             /\ UNCHANGED blobs
    /\ UNCHANGED <<media, respVars, nextId, clock, pureVars>>

\* Lines 118-144: the record, cosmos_db.create_media, the notification.
upload_new_asset_persist(s) ==
    /\ req[s].pc = "persist"
    /\ LET r == req[s]
           asset_identifier == r.mid
           timestamp_now == isoformat(clock)
           asset_record == [r.doc EXCEPT !.id = asset_identifier,
                                         !.uploadedAt = timestamp_now,
                                         !.updatedAt = timestamp_now]
       IN \/ /\ media' = [i \in DOMAIN media \cup {asset_identifier} |->
                             IF i = asset_identifier THEN asset_record ELSE media[i]]
             /\ Respond(s, "create", r.caller, r.input, asset_identifier, 201,
                        r.ev \cup {"notified"}, {asset_record}, media')
          \/ /\ Respond(s, "create", r.caller, r.input, r.mid, 500,
                        r.ev \cup {"meta_create_raised"}, {}, media)
             /\ UNCHANGED media
    /\ UNCHANGED <<blobs, nextId, clock, pureVars>>

---------------------------------------------------------------------------
(* retrieve_single_asset, retrieve_asset_collection, find_assets *)

retrieve_single_asset(s, caller, media_id) ==
    /\ req[s].pc = "idle"
    /\ LET got == retrieve_and_confirm_asset_ownership(media_id, caller)
           rel == Relation(media_id, caller)
       IN IF got.status # 0
          THEN Respond(s, "get", caller, NoInput, media_id, got.status, rel, {}, media)
          ELSE Respond(s, "get", caller, NoInput, media_id, 200, rel \cup {"notified"}, {got.doc}, media)
    /\ UNCHANGED <<media, blobs, nextId, clock, pureVars>>

retrieve_asset_collection(s, caller, page, pageSize, mediaType) ==
    /\ req[s].pc = "idle"
    /\ \/ LET got == get_user_media(caller, page, pageSize, mediaType)
          IN Respond(s, "list", caller, NoInput, 0, 200, {"notified"}, got.items, media)
       \/ Respond(s, "list", caller, NoInput, 0, 500, {"query_raised"}, {}, media)
    /\ UNCHANGED <<media, blobs, nextId, clock, pureVars>>

\* Variant: the search is not given the caller's identifier.
find_assets_unscoped(s, caller, query, page, pageSize) ==
    /\ req[s].pc = "idle"
    /\ \/ LET items == UNION {search_media(o, query, page, pageSize).items :
                                  o \in Owners}
          IN Respond(s, "search", caller, NoInput, 0, 200, {"notified"}, items, media)
       \/ Respond(s, "search", caller, NoInput, 0, 500, {"query_raised"}, {}, media)
    /\ UNCHANGED <<media, blobs, nextId, clock, pureVars>>

find_assets(s, caller, query, page, pageSize) ==
    /\ req[s].pc = "idle"
    /\ \/ LET got == search_media(caller, query, page, pageSize)
          IN Respond(s, "search", caller, NoInput, 0, 200, {"notified"}, got.items, media)
       \/ Respond(s, "search", caller, NoInput, 0, 500, {"query_raised"}, {}, media)
    /\ UNCHANGED <<media, blobs, nextId, clock, pureVars>>

---------------------------------------------------------------------------
(* modify_asset_metadata *)

\* MediaUpdate: a field the body omits and a field it gives as null both
\* parse to None.
MediaUpdate(description, tags) ==
    [description |-> IF description = Unset THEN NoneD ELSE description,
     tags |-> IF tags = UnsetL THEN NoneL ELSE tags]

\* Variant: field_updates takes both fields of the body as they are, None
\* included.
modify_asset_metadata_fetch_whole(s, caller, media_id, description, tags) ==
    /\ req[s].pc = "idle"
    /\ LET got == retrieve_and_confirm_asset_ownership(media_id, caller)
           modification_data == MediaUpdate(description, tags)
           field_updates ==
               [updatedAt |-> isoformat(clock),
                description |-> modification_data.description,
                tags |-> modification_data.tags]
       IN IF got.status # 0
          THEN Respond(s, "update", caller, NoInput, media_id, got.status,
                       Relation(media_id, caller), {}, media)
          ELSE /\ req' = [req EXCEPT ![s] =
                       [Idle EXCEPT !.op = "update", !.pc = "upd_persist",
                                    !.caller = caller, !.mid = media_id,
                                    !.body = [description |-> description,
                                              tags |-> tags],
                                    !.doc = got.doc, !.upd = field_updates,
                                    !.ev = Relation(media_id, caller)]]
               /\ UNCHANGED respVars
    /\ UNCHANGED <<media, blobs, nextId, clock, pureVars>>

\* Lines 281-296: the guard, then field_updates.
modify_asset_metadata_fetch(s, caller, media_id, description, tags) ==
    /\ req[s].pc = "idle"
    /\ LET got == retrieve_and_confirm_asset_ownership(media_id, caller)
           modification_data == MediaUpdate(description, tags)
           field_updates ==
               [updatedAt |-> isoformat(clock),
                description |-> IF modification_data.description # NoneD
                                THEN modification_data.description ELSE Unset,
                tags |-> IF modification_data.tags # NoneL
                         THEN modification_data.tags ELSE UnsetL]
       IN IF got.status # 0
          THEN Respond(s, "update", caller, NoInput, media_id, got.status,
                       Relation(media_id, caller), {}, media)
          ELSE /\ req' = [req EXCEPT ![s] =
                       [Idle EXCEPT !.op = "update", !.pc = "upd_persist",
                                    !.caller = caller, !.mid = media_id,
                                    !.body = [description |-> description,
                                              tags |-> tags],
                                    !.doc = got.doc, !.upd = field_updates,
                                    !.ev = Relation(media_id, caller)]]
               /\ UNCHANGED respVars
    /\ UNCHANGED <<media, blobs, nextId, clock, pureVars>>

\* cosmos_db.update_media: the stored record with the given fields replaced.
Merged(doc, field_updates) ==
    [doc EXCEPT !.updatedAt = field_updates.updatedAt,
                !.description = IF field_updates.description = Unset
                                THEN @ ELSE field_updates.description,
                !.tags = IF field_updates.tags = UnsetL
                         THEN @ ELSE field_updates.tags]

\* Variant: no handler turns the ValueError of a record that is gone into
\* 404, so it ends with 500 like any other exception.
modify_asset_metadata_persist_unhandled(s) ==
    /\ req[s].pc = "upd_persist"
    /\ LET r == req[s]
           stored == get_media_by_id(r.mid, r.caller)
           modified_asset == Merged(stored, r.upd)
       IN \/ /\ stored = NoDoc
             /\ Respond(s, "update", r.caller, NoInput, r.mid, 500,
                        r.ev \cup {"meta_upd_missing"}, {}, media)
             /\ UNCHANGED media
          \/ /\ stored # NoDoc
             /\ media' = [media EXCEPT ![r.mid] = modified_asset]
             /\ Respond(s, "update", r.caller, NoInput, r.mid, 200,
                        r.ev \cup {"notified"}, {modified_asset}, media')
          \/ /\ Respond(s, "update", r.caller, NoInput, r.mid, 500,
                        r.ev \cup {"meta_upd_raised"}, {}, media)
             /\ UNCHANGED media
    /\ UNCHANGED <<blobs, nextId, clock, pureVars>>

\* Variant: the modified asset is written back without its preview URL.
modify_asset_metadata_persist_drops(s) ==
    /\ req[s].pc = "upd_persist"
    /\ LET r == req[s]
           stored == get_media_by_id(r.mid, r.caller)
           modified_asset == [Merged(stored, r.upd) EXCEPT !.thumbnailUrl = NoneS]
       IN \/ /\ stored = NoDoc
             /\ Respond(s, "update", r.caller, NoInput, r.mid, 404,
                        r.ev \cup {"meta_upd_missing"}, {}, media)
             /\ UNCHANGED media
          \/ /\ stored # NoDoc
             /\ media' = [media EXCEPT ![r.mid] = modified_asset]
             /\ Respond(s, "update", r.caller, NoInput, r.mid, 200,
                        r.ev \cup {"notified"}, {modified_asset}, media')
          \/ /\ Respond(s, "update", r.caller, NoInput, r.mid, 500,
                        r.ev \cup {"meta_upd_raised"}, {}, media)
             /\ UNCHANGED media
    /\ UNCHANGED <<blobs, nextId, clock, pureVars>>

\* Lines 298-319: cosmos_db.update_media, which raises ValueError when the
\* record is gone (404), and the notification.
modify_asset_metadata_persist(s) ==
    /\ req[s].pc = "upd_persist"
    /\ LET r == req[s]
           stored == get_media_by_id(r.mid, r.caller)
           modified_asset == Merged(stored, r.upd)
       IN \/ /\ stored = NoDoc
             /\ Respond(s, "update", r.caller, NoInput, r.mid, 404, r.ev \cup {"meta_upd_missing"},
                        {}, media)
             /\ UNCHANGED media
          \/ /\ stored # NoDoc
             /\ media' = [media EXCEPT ![r.mid] = modified_asset]
             /\ Respond(s, "update", r.caller, NoInput, r.mid, 200, r.ev \cup {"notified"},
                        {modified_asset}, media')
          \/ /\ Respond(s, "update", r.caller, NoInput, r.mid, 500, r.ev \cup {"meta_upd_raised"},
                        {}, media)
             /\ UNCHANGED media
    /\ UNCHANGED <<blobs, nextId, clock, pureVars>>

---------------------------------------------------------------------------
(* remove_asset *)

\* Variant: the record is read by its identifier alone and the delete goes
\* on whatever the guard would say.
remove_asset_fetch_unguarded(s, caller, media_id) ==
    /\ req[s].pc = "idle"
    /\ LET doc == IF media_id \in DOMAIN media THEN media[media_id] ELSE NoDoc
       IN req' = [req EXCEPT ![s] =
                     [Idle EXCEPT !.op = "delete", !.pc = "del_primary",
                                  !.caller = caller, !.mid = media_id,
                                  !.doc = doc,
                                  !.ev = Relation(media_id, caller)]]
    /\ UNCHANGED <<media, blobs, respVars, nextId, clock, pureVars>>

\* Lines 330-336: the guard.
remove_asset_fetch(s, caller, media_id) ==
    /\ req[s].pc = "idle"
    /\ LET got == retrieve_and_confirm_asset_ownership(media_id, caller)
       IN IF got.status # 0
          THEN Respond(s, "delete", caller, NoInput, media_id, got.status,
                       Relation(media_id, caller), {}, media)
          ELSE /\ req' = [req EXCEPT ![s] =
                       [Idle EXCEPT !.op = "delete", !.pc = "del_primary",
                                    !.caller = caller, !.mid = media_id,
                                    !.doc = got.doc,
                                    !.ev = Relation(media_id, caller)]]
               /\ UNCHANGED respVars
    /\ UNCHANGED <<media, blobs, nextId, clock, pureVars>>

\* Where remove_asset goes after the primary delete returned: line 342-343.
AfterPrimaryDelete(r) ==
    LET preview_blob_identifier == parse_preview_storage_identifier(r.doc)
    IN IF Truthy(preview_blob_identifier)
       THEN [r EXCEPT !.pc = "del_preview", !.pkey = preview_blob_identifier]
       ELSE [r EXCEPT !.pc = "del_meta"]

\* Line 339: blob_storage.delete_file of the primary key.  The gateway
\* removes the blob, raises, or returns its failure result; the route reads
\* no result.
remove_asset_primary(s) ==
    /\ req[s].pc = "del_primary"
    /\ LET r == req[s]
           key == r.doc.fileName
       IN \/ /\ blobs' = blobs \ {key}
             /\ req' = [req EXCEPT ![s] =
                           AfterPrimaryDelete([r EXCEPT !.ev = @ \cup {"primary_del_ok"},
                                                      !.dels = Append(@, key)])]
             /\ UNCHANGED respVars
          \/ /\ UNCHANGED blobs
             /\ req' = [req EXCEPT ![s] =
                           AfterPrimaryDelete([r EXCEPT !.ev = @ \cup {"primary_del_false"},
                                                      !.dels = Append(@, key)])]
             /\ UNCHANGED respVars
          \/ /\ UNCHANGED blobs
             /\ Respond(s, "delete", r.caller, NoInput, r.mid, 500,
                        r.ev \cup {"primary_del_raised"}, {}, media)
    /\ UNCHANGED <<media, nextId, clock, pureVars>>

\* Variant: the preview delete is outside the try, so its exception ends
\* the delete.
remove_asset_preview_fatal(s) ==
    /\ req[s].pc = "del_preview"
    /\ LET r == req[s]
           gone == IF r.pkey \in blobs THEN {} ELSE {"preview_absent"}
       IN \/ /\ blobs' = blobs \ {r.pkey}
             /\ req' = [req EXCEPT ![s].pc = "del_meta",
                                   ![s].dels = Append(@, r.pkey),
                                   ![s].ev = @ \cup gone \cup {"preview_del_ok"}]
             /\ UNCHANGED respVars
          \/ /\ UNCHANGED <<blobs, respVars>>
             /\ req' = [req EXCEPT ![s].pc = "del_meta",
                                   ![s].dels = Append(@, r.pkey),
                                   ![s].ev = @ \cup gone \cup {"preview_del_false"}]
          \/ /\ UNCHANGED blobs
             /\ Respond(s, "delete", r.caller, NoInput, r.mid, 500,
                        r.ev \cup gone \cup {"preview_del_raised"}, {}, media)
    /\ UNCHANGED <<media, nextId, clock, pureVars>>

\* Lines 343-347: the preview delete, its failure logged and dropped.
remove_asset_preview(s) ==
    /\ req[s].pc = "del_preview"
    /\ LET r == req[s]
           gone == IF r.pkey \in blobs THEN {} ELSE {"preview_absent"}
       IN \/ /\ blobs' = blobs \ {r.pkey}
             /\ req' = [req EXCEPT ![s].pc = "del_meta",
                                   ![s].dels = Append(@, r.pkey),
                                   ![s].ev = @ \cup gone \cup {"preview_del_ok"}]
          \/ /\ UNCHANGED blobs
             /\ req' = [req EXCEPT ![s].pc = "del_meta",
                                   ![s].dels = Append(@, r.pkey),
                                   ![s].ev = @ \cup gone \cup {"preview_del_false"}]
          \/ /\ UNCHANGED blobs
             /\ req' = [req EXCEPT ![s].pc = "del_meta",
                                   ![s].dels = Append(@, r.pkey),
                                   ![s].ev = @ \cup gone \cup {"preview_del_raised"}]
    /\ UNCHANGED <<media, respVars, nextId, clock, pureVars>>

\* cosmos_db.delete_media(id, user): the owner's record, if there, is removed.
delete_media(id, user) ==
    IF get_media_by_id(id, user) = NoDoc THEN media
    ELSE [i \in DOMAIN media \ {id} |-> media[i]]

\* Variant: the notification is awaited, and its failure is the route's.
remove_asset_metadata_awaits(s) ==
    /\ req[s].pc = "del_meta"
    /\ LET r == req[s]
       IN \/ /\ media' = delete_media(r.mid, r.caller)
             /\ \/ Respond(s, "delete", r.caller, NoInput, r.mid, 204,
                            r.ev \cup {"notified"}, {}, media')
                \/ Respond(s, "delete", r.caller, NoInput, r.mid, 500,
                            r.ev \cup {"notified", "notify_raised"}, {}, media')
          \/ /\ UNCHANGED media
             /\ Respond(s, "delete", r.caller, NoInput, r.mid, 500,
                        r.ev \cup {"meta_del_raised"}, {}, media)
    /\ UNCHANGED <<blobs, nextId, clock, pureVars>>

\* Lines 349-355: cosmos_db.delete_media and the notification.
remove_asset_metadata(s) ==
    /\ req[s].pc = "del_meta"
    /\ LET r == req[s]
       IN \/ /\ media' = delete_media(r.mid, r.caller)
             /\ Respond(s, "delete", r.caller, NoInput, r.mid, 204, r.ev \cup {"notified"}, {}, media')
          \/ /\ UNCHANGED media
             /\ Respond(s, "delete", r.caller, NoInput, r.mid, 500,
                        r.ev \cup {"meta_del_raised"}, {}, media)
    /\ UNCHANGED <<blobs, nextId, clock, pureVars>>

---------------------------------------------------------------------------
(* The service *)

\* Inputs of the requests.
ContentTypes == {"image/png", "video/mp4", "text/plain"}
Pages == {1, 2}
PageSizes == {1}
Categories == {NoneD, "image"}
Queries == {<<"x">>}

NoArg == NoDoc
Pending == <<"<pending>">>     \* no result yet

Init ==
    /\ media = << >>
    /\ blobs = {}
    /\ req = [s \in Slots |-> Idle]
    /\ resp = NoResp
    /\ nextId = 1
    /\ clock = 0
    /\ notice = "none"
    /\ arg = NoArg
    /\ out = Pending

\* Every route, from both accounts, uploads of one file name.
Next ==
    \E s \in {1} :
        \/ \E caller \in Owners, ct \in ContentTypes :
                upload_new_asset_validate(s, caller, <<"x">>, ct, max_file_size_bytes,
                                          NoneD, NoneD)
        \/ upload_new_asset_store(s)
        \/ upload_new_asset_preview(s)
        \/ upload_new_asset_persist(s)
        \/ \E caller \in Owners, id \in AssetIds : retrieve_single_asset(s, caller, id)
        \/ \E caller \in Owners, page \in Pages, size \in PageSizes, c \in Categories :
                retrieve_asset_collection(s, caller, page, size, c)
        \/ \E caller \in Owners, q \in Queries, page \in Pages, size \in PageSizes :
                find_assets(s, caller, q, page, size)
        \/ \E caller \in Owners, id \in AssetIds :
                modify_asset_metadata_fetch(s, caller, id, "d1", UnsetL)
        \/ modify_asset_metadata_persist(s)
        \/ \E caller \in Owners, id \in AssetIds : remove_asset_fetch(s, caller, id)
        \/ remove_asset_primary(s)
        \/ remove_asset_preview(s)
        \/ remove_asset_metadata(s)

Spec == Init /\ [][Next]_vars

---------------------------------------------------------------------------
(* Uploads alone, over what a client can declare *)

AllContentTypes ==
    {"image/png", "IMAGE/PNG", "video/mp4", "Video/MP4", "text/plain",
     "TEXT/PLAIN", NoneD}
AllSizes == {max_file_size_bytes - 1, max_file_size_bytes, max_file_size_bytes + 1}
Descriptions == {"d0"}
LabelStrings == {NoneD, "", "[x", "3", "[]", "[\"t\"]"}

NextCreate ==
    \E s \in {1} :
        \/ \E ct \in AllContentTypes, size \in AllSizes, d \in Descriptions,
              t \in LabelStrings :
                upload_new_asset_validate(s, <<"a">>, <<"x">>, ct, size, d, t)
        \/ upload_new_asset_store(s)
        \/ upload_new_asset_preview(s)
        \/ upload_new_asset_persist(s)

SpecCreate == Init /\ [][NextCreate]_vars

---------------------------------------------------------------------------
(* Updates of one described and labelled video, over the bodies, as time passes *)

BodyDescriptions == {Unset, NoneD, "d1"}
BodyTags == {UnsetL, NoneL, <<"u">>}

NextUpdate ==
    \/ \E s \in {1} :
        \/ upload_new_asset_validate(s, <<"a">>, <<"x">>, "video/mp4",
                                     max_file_size_bytes, "d0", "[\"t\"]")
        \/ upload_new_asset_store(s)
        \/ upload_new_asset_persist(s)
        \/ \E id \in AssetIds, d \in BodyDescriptions, t \in BodyTags :
                modify_asset_metadata_fetch(s, <<"a">>, id, d, t)
        \/ modify_asset_metadata_persist(s)
    \/ Tick

SpecUpdate == Init /\ [][NextUpdate]_vars

---------------------------------------------------------------------------
(* An update and a delete of the owner's video at the same time *)

NextRace ==
    \/ upload_new_asset_validate(1, <<"a">>, <<"x">>, "video/mp4",
                                 max_file_size_bytes, NoneD, NoneD)
    \/ upload_new_asset_store(1)
    \/ upload_new_asset_persist(1)
    \/ \E s \in Slots :
        \/ \E id \in AssetIds : modify_asset_metadata_fetch(s, <<"a">>, id, "d1", UnsetL)
        \/ modify_asset_metadata_persist(s)
        \/ \E id \in AssetIds : remove_asset_fetch(s, <<"a">>, id)
        \/ remove_asset_primary(s)
        \/ remove_asset_metadata(s)

SpecRace == Init /\ [][NextRace]_vars

---------------------------------------------------------------------------
(* Every route of one account, and the notification tasks they schedule *)

NextNotify ==
    \/ \E s \in {1} :
        \/ \E ct \in ContentTypes :
                upload_new_asset_validate(s, <<"a">>, <<"x">>, ct, max_file_size_bytes,
                                          NoneD, NoneD)
        \/ upload_new_asset_store(s)
        \/ upload_new_asset_preview(s)
        \/ upload_new_asset_persist(s)
        \/ \E id \in AssetIds : retrieve_single_asset(s, <<"a">>, id)
        \/ retrieve_asset_collection(s, <<"a">>, 1, 1, NoneD)
        \/ find_assets(s, <<"a">>, <<"x">>, 1, 1)
        \/ \E id \in AssetIds : modify_asset_metadata_fetch(s, <<"a">>, id, "d1", UnsetL)
        \/ modify_asset_metadata_persist(s)
        \/ \E id \in AssetIds : remove_asset_fetch(s, <<"a">>, id)
        \/ remove_asset_primary(s)
        \/ remove_asset_preview(s)
        \/ remove_asset_metadata(s)
    \/ notify_logic_app

SpecNotify == Init /\ [][NextNotify]_vars

---------------------------------------------------------------------------
(* Image uploads and deletes, over the file names *)

NextKeys ==
    \E s \in {1} :
        \/ \E caller \in Owners, filename \in FileNames :
                upload_new_asset_validate(s, caller, filename, "image/png",
                                          max_file_size_bytes, NoneD, NoneD)
        \/ upload_new_asset_store(s)
        \/ upload_new_asset_preview(s)
        \/ upload_new_asset_persist(s)
        \/ \E caller \in Owners, id \in AssetIds : remove_asset_fetch(s, caller, id)
        \/ remove_asset_primary(s)
        \/ remove_asset_preview(s)
        \/ remove_asset_metadata(s)

SpecKeys == Init /\ [][NextKeys]_vars

---------------------------------------------------------------------------
(* parse_preview_storage_identifier alone, over asset documents *)

DeriveUrls == {NoneS, EmptyS, BlobUrl(BlobName(<<"a">>, THUMB \o <<"x">>))}
DeriveKeys ==
    {BlobName(<<"a">>, n) : n \in FileNames} \cup {<<"a", "/", "1f">>, Missing}
DeriveNames == FileNames \cup {<<"x", "/">>, <<"y">>, Missing, NoneS}

InitDerive ==
    /\ media = << >>
    /\ blobs = {}
    /\ req = [s \in Slots |-> Idle]
    /\ resp = NoResp
    /\ nextId = 1
    /\ clock = 0
    /\ notice = "none"
    /\ arg \in {[NoDoc EXCEPT !.thumbnailUrl = u, !.fileName = k,
                              !.originalFileName = n] :
                    u \in DeriveUrls, k \in DeriveKeys, n \in DeriveNames}
    /\ out = Pending

ApplyDerive ==
    /\ out = Pending
    /\ out' = parse_preview_storage_identifier(arg)
    /\ UNCHANGED <<arg, storeVars>>

NextDerive == ApplyDerive

SpecDerive == InitDerive /\ [][NextDerive]_vars

---------------------------------------------------------------------------
(* verify_file_constraints alone, over streams, read positions and limits *)

Streams == {[len |-> n, pos |-> p] : n \in 0..MaxLen, p \in 0..MaxLen}
SizeLimits == {-1} \cup (0..MaxLen)

\* No call made yet.
PendingSize(stream) == [status |-> -1, size |-> 0, stream |-> stream]

InitSize ==
    /\ media = << >>
    /\ blobs = {}
    /\ req = [s \in Slots |-> Idle]
    /\ resp = NoResp
    /\ nextId = 1
    /\ clock = 0
    /\ notice = "none"
    /\ arg \in {[stream |-> f, size_limit |-> l] : f \in Streams, l \in SizeLimits}
    /\ out = PendingSize(arg.stream)

ApplySize ==
    /\ out.status = -1
    /\ out' = verify_file_constraints(arg.stream, arg.size_limit)
    /\ UNCHANGED <<arg, storeVars>>

NextSize == ApplySize

SpecSize == InitSize /\ [][NextSize]_vars

---------------------------------------------------------------------------
(* Properties *)

\* Collaborator failures a request can meet.
Failures ==
    {"primary_put_raised", "meta_create_raised", "query_raised", "meta_upd_missing",
     "meta_upd_raised", "primary_del_raised", "primary_del_false", "meta_del_raised"}

\* C1: a read, update or delete of an existing asset by an account that does
\* not own it ends with 403, and by its owner, when no collaborator call
\* fails, with success.
C1_ForbiddenElseSucceeds ==
    resp.op \in {"get", "update", "delete"} =>
        /\ "foreign" \in resp.ev => resp.status = 403
        /\ ("own" \in resp.ev /\ resp.ev \cap Failures = {}) => resp.status \in {200, 204}

\* The account a step of slot s acts for.
Actor(s) ==
    IF req[s].pc # "idle" THEN req[s].caller
    ELSE IF req'[s].pc # "idle" THEN req'[s].caller
    ELSE resp'.caller

\* The records and the blobs of an account are the same before and after.
Untouched(owner) ==
    /\ \A i \in DOMAIN media :
           media[i].userId = owner => (i \in DOMAIN media' /\ media'[i] = media[i])
    /\ \A i \in DOMAIN media' :
           media'[i].userId = owner => (i \in DOMAIN media /\ media'[i] = media[i])
    /\ {k \in blobs' : InNamespace(k, owner)} = {k \in blobs : InNamespace(k, owner)}

C3_RecordHasBlob ==
    (\A s \in Slots : req[s].pc = "idle") =>
        \A i \in DOMAIN media : media[i].fileName \in blobs

\* C4: a delete whose primary blob delete failed, by raising or by returning
\* the failure result, ends in failure and leaves the metadata record.
C4_PrimaryDeleteFailureFails ==
    (resp.op = "delete"
        /\ resp.ev \cap {"primary_del_raised", "primary_del_false"} # {}) =>
        resp.status = 500 /\ resp.present

\* C5: a delete whose preview blob delete failed, the metadata delete
\* succeeding, ends with 204 and the record removed.
C5_PreviewDeleteFailureTolerated ==
    (resp.op = "delete"
        /\ resp.ev \cap {"preview_del_raised", "preview_del_false"} # {}
        /\ "meta_del_raised" \notin resp.ev) =>
        resp.status = 204 /\ ~resp.present

\* The preview blob was gone already, its delete raised, the delete succeeded.
C5_Witness ==
    /\ resp.op = "delete"
    /\ {"preview_absent", "preview_del_raised", "primary_del_ok"} \subseteq resp.ev
    /\ resp.status = 204
    /\ ~resp.present

\* C6: the derivation gives None when the original file name is absent or its
\* last segment does not occur in the primary key, and never gives the
\* primary key itself.
C6_NoneWhenNotDerivable ==
    (out # Pending /\ arg.fileName \notin {Missing, NoneS}) =>
        /\ (\/ arg.originalFileName \in {Missing, NoneS}
            \/ ~Contains(arg.fileName, LastSegment(arg.originalFileName)))
           => out = NoneS
        /\ out # arg.fileName

\* C7: when an image upload succeeds with its preview written, the key the
\* preview was written under is the key the delete-time derivation computes
\* from the persisted record.
C7_PreviewKeyIsDerivedKey ==
    [][\A s \in Slots :
          (req[s].pc = "persist" /\ req'[s].pc = "idle" /\ resp'.status = 201
              /\ req[s].pkey # NoneS) =>
              parse_preview_storage_identifier(media'[req[s].mid]) = req[s].pkey]_vars

\* C8: an upload whose primary write failed ends with 500 and no record; a
\* record is persisted, and the steps after the primary write are taken, only
\* after the primary write succeeded.
C8_PrimaryWriteFirst ==
    /\ (resp.op = "create" /\ "primary_put_raised" \in resp.ev) =>
           resp.status = 500 /\ ~resp.present
    /\ (resp.op = "create" /\ resp.present) => "primary_put_ok" \in resp.ev
    /\ \A s \in Slots :
           req[s].pc \in {"put_preview", "persist"} => "primary_put_ok" \in req[s].ev

C8_Witness ==
    resp.op = "create" /\ "primary_put_raised" \in resp.ev /\ resp.status = 500

\* C9: an image upload whose preview derivation or preview write failed goes
\* on to persist, and when the metadata persist succeeds it ends with 201 and
\* a record whose thumbnailUrl is null.
C9_PreviewFailureTolerated ==
    [][\A s \in Slots :
          /\ req[s].pc = "put_preview" => req'[s].pc \in {"put_preview", "persist"}
          /\ (/\ req[s].pc = "persist"
              /\ req[s].ev \cap {"preview_none", "preview_put_raised"} # {}
              /\ req'[s].pc = "idle"
              /\ "meta_create_raised" \notin resp'.ev) =>
                 /\ resp'.status = 201
                 /\ req[s].mid \in DOMAIN media'
                 /\ media'[req[s].mid].thumbnailUrl = NoneS]_vars

C9_Witness ==
    /\ resp.op = "create"
    /\ resp.status = 201
    /\ "preview_put_raised" \in resp.ev
    /\ resp.present

\* C10: an upload that declares a content type in neither allow-list, in any
\* letter case, ends with 400, and wrote no blob and no record.
C10_UnsupportedTypeRejected ==
    (/\ resp.op = "create"
     /\ resp.input.content_type # NoneD
     /\ Lower(resp.input.content_type)
            \notin allowed_image_types_list \cup allowed_video_types_list) =>
        /\ resp.status = 400
        /\ resp.ev = {"invalid"}
        /\ ~resp.present
        /\ nextId = 1 => (blobs = {} /\ media = << >>)

C10_Witness ==
    resp.op = "create" /\ resp.input.content_type = "TEXT/PLAIN" /\ resp.status = 400

\* The content types the classification accepts.
Supported(content_type) ==
    /\ content_type # NoneD
    /\ Lower(content_type) \in allowed_image_types_list \cup allowed_video_types_list

\* C11: an upload that reaches the size check with a stream longer than the
\* limit ends with 413, the step that answers it writing no blob and no
\* record; a stream as long as the limit, or shorter, is not refused with 413.
C11_OverLimitRejected ==
    [][(resp' # resp /\ resp'.op = "create" /\ Supported(resp'.input.content_type)) =>
          /\ resp'.input.size > max_file_size_bytes =>
                 /\ resp'.status = 413
                 /\ resp'.ev = {"invalid"}
                 /\ UNCHANGED <<media, blobs, nextId>>
          /\ resp'.input.size <= max_file_size_bytes => resp'.status # 413]_vars

\* An image one byte over the limit was refused.
C11_Witness ==
    /\ resp.op = "create"
    /\ resp.input.content_type = "image/png"
    /\ resp.input.size = max_file_size_bytes + 1
    /\ resp.status = 413
    /\ blobs = {}

\* C12: an upload that reaches the label block with a label string that is
\* given and not empty, and that is no JSON or decodes to a value that is no
\* array, ends with 400.
C12_BadLabelsRejected ==
    (/\ resp.op = "create"
     /\ Supported(resp.input.content_type)
     /\ resp.input.size <= max_file_size_bytes
     /\ resp.input.tags \notin {NoneD, ""}
     /\ ~(JsonLoads(resp.input.tags).ok /\ JsonLoads(resp.input.tags).isList)) =>
        resp.status = 400

\* The step of slot s on which an update is answered with 200.
Updated(s) ==
    /\ req[s].pc = "upd_persist"
    /\ req'[s].pc = "idle"
    /\ resp'.op = "update"
    /\ resp'.status = 200

\* C13: after a successful update, a field the body gave as null is null in
\* the record, and a field the body left out is as it was.
C13_NullWrittenOmittedKept ==
    [][\A s \in Slots :
          Updated(s) =>
              LET body == req[s].body
                  before == media[req[s].mid]
                  after == media'[req[s].mid]
              IN /\ body.description = NoneD => after.description = NoneD
                 /\ body.tags = NoneL => after.tags = NoneL
                 /\ body.description = Unset => after.description = before.description
                 /\ body.tags = UnsetL => after.tags = before.tags]_vars

\* C14: a successful update whose body has description and no labels leaves
\* the record's labels as they were, and one whose body has labels and no
\* description leaves the description as it was.
C14_OtherFieldKept ==
    [][\A s \in Slots :
          Updated(s) =>
              LET body == req[s].body
                  before == media[req[s].mid]
                  after == media'[req[s].mid]
              IN /\ (body.description # Unset /\ body.tags = UnsetL) =>
                        after.tags = before.tags
                 /\ (body.tags # UnsetL /\ body.description = Unset) =>
                        after.description = before.description]_vars

\* A description alone was written, the labels of the upload still there.
C14_Witness ==
    /\ resp.op = "update"
    /\ resp.status = 200
    /\ \E i \in DOMAIN media :
           media[i].description = "d1" /\ media[i].tags = <<"t">>

\* C15: a successful update leaves the record with an updatedAt later than
\* the one it had.
C15_UpdatedAtIncreases ==
    [][\A s \in Slots :
          Updated(s) =>
              media'[req[s].mid].updatedAt[2] > media[req[s].mid].updatedAt[2]]_vars

\* C16: an update that passed the guard and comes to persist when the record
\* is gone, the store raising nothing else, ends with 404 and leaves no
\* record.
C16_RaceEndsNotFound ==
    [][\A s \in Slots :
          (/\ req[s].pc = "upd_persist"
           /\ req'[s].pc = "idle"
           /\ req[s].mid \notin DOMAIN media
           /\ "meta_upd_raised" \notin resp'.ev) =>
              /\ resp'.status = 404
              /\ req[s].mid \notin DOMAIN media']_vars

\* The owner's update passed the guard, a delete removed the record, and the
\* update was answered 404.
C16_Witness ==
    /\ resp.op = "update"
    /\ resp.status = 404
    /\ {"own", "meta_upd_missing"} \subseteq resp.ev
    /\ media = << >>
    /\ nextId > 1

\* Exceptions that end a route with 500.
Raised ==
    {"primary_put_raised", "meta_create_raised", "query_raised", "meta_upd_raised",
     "primary_del_raised", "meta_del_raised"}

\* C17: a step of the notification task, whatever its outcome, changes no
\* record, no blob, no request and no response; and a route schedules the
\* task on the step on which it returns its success, after its last store
\* call has returned and with nothing of the request left to run.
C17_NotificationApart ==
    [][/\ notice' \notin {notice, "scheduled"} =>
              UNCHANGED <<media, blobs, req, resp, nextId, clock>>
       /\ \A s \in Slots :
              (req'[s] # req[s] /\ req'[s].pc = "idle") =>
                  /\ "notified" \in resp'.ev <=> resp'.status \in {200, 201, 204}
                  /\ "notified" \in resp'.ev =>
                         /\ resp'.ev \cap Raised = {}
                         /\ notice' = "scheduled"
                  /\ "notified" \notin resp'.ev => notice' = notice
       /\ \A s \in Slots : "notified" \notin req[s].ev]_vars

\* The task of a delete failed, and the delete's 204 and the emptied stores
\* are as the route left them.
C17_Witness ==
    /\ notice = "failed"
    /\ resp.op = "delete"
    /\ resp.status = 204
    /\ "notified" \in resp.ev
    /\ media = << >>
    /\ blobs = {}

\* C18: when the size check has returned or raised 413, the stream's read
\* position is the one it had before the check.
C18_PositionRestored ==
    out.status # -1 => out.stream.pos = arg.stream.pos

\* C19: every record with a thumbnailUrl is an image; a video's thumbnailUrl
\* is null.
C19_PreviewOnlyForImages ==
    \A i \in DOMAIN media :
        /\ media[i].thumbnailUrl # NoneS => media[i].mediaType = "image"
        /\ media[i].mediaType = "video" => media[i].thumbnailUrl = NoneS

\* An image with its preview, after an update of it.
C19_Witness ==
    /\ resp.op = "update"
    /\ resp.status = 200
    /\ \E i \in DOMAIN media :
           /\ media[i].mediaType = "image"
           /\ media[i].thumbnailUrl # NoneS
           /\ media[i].description = "d1"

\* The steps of update and delete that call the stores.
Mutating == {"upd_persist", "del_primary", "del_preview", "del_meta"}

\* C20: an update or a delete that the guard ends, with 404 or 403, changes
\* no record and no blob and takes no further step; an update or a delete is
\* at a step that calls the stores only with the caller's own record from the
\* guard, and records and blobs change only on such a step or on a step of
\* an upload.
C20_GuardBeforeMutation ==
    [][/\ (req' = req /\ resp' # resp /\ resp'.op \in {"update", "delete"}) =>
              /\ resp'.status \in {403, 404}
              /\ "own" \notin resp'.ev
              /\ UNCHANGED <<media, blobs>>
       /\ \A s \in Slots :
              req'[s].pc \in Mutating =>
                  /\ req'[s].doc # NoDoc
                  /\ req'[s].doc.userId = req'[s].caller
                  /\ "own" \in req'[s].ev
       /\ (media' # media \/ blobs' # blobs) =>
              \E s \in Slots :
                  /\ req'[s] # req[s]
                  /\ req[s].pc \in Mutating \cup {"put_primary", "put_preview", "persist"}]_vars

\* The other account's delete was ended by the guard, the owner's record and
\* blob still there.
C20_Witness ==
    /\ resp.op = "delete"
    /\ resp.status = 404
    /\ "foreign" \in resp.ev
    /\ \E i \in DOMAIN media :
           media[i].userId # resp.caller /\ media[i].fileName \in blobs

\* C21: when the delete of an image whose record has a preview ends with 204,
\* no storage call of it having failed, neither the primary blob nor the
\* preview blob that the upload wrote is left in the blob store.
C21_DeleteLeavesNoBlobs ==
    [][\A s \in Slots :
          (/\ req[s].pc = "del_meta"
           /\ req'[s].pc = "idle"
           /\ resp'.status = 204
           /\ req[s].doc.thumbnailUrl # NoneS
           /\ req[s].ev \cap {"primary_del_false", "preview_del_false",
                               "preview_del_raised"} = {}) =>
              /\ req[s].doc.fileName \notin blobs'
              /\ BlobName(req[s].caller, THUMB \o req[s].doc.originalFileName)
                     \notin blobs']_vars

\* The fields of a record that are not description, tags or updatedAt.
Fixed(doc) ==
    <<doc.id, doc.userId, doc.fileName, doc.originalFileName, doc.mediaType,
      doc.fileSize, doc.mimeType, doc.blobUrl, doc.thumbnailUrl, doc.uploadedAt>>

\* C22: a step of an update, from the guard to its answer, whatever the
\* answer, adds no record, removes none, and leaves every field of every
\* record other than description, tags and updatedAt as it was.
C22_UpdateFrame ==
    [][\A s \in Slots :
          (req'[s] # req[s] /\ "update" \in {req[s].op, req'[s].op}) =>
              /\ DOMAIN media' = DOMAIN media
              /\ \A i \in DOMAIN media : Fixed(media'[i]) = Fixed(media[i])
              /\ \A i \in DOMAIN media \ {req[s].mid} : media'[i] = media[i]
              /\ blobs' = blobs]_vars

\* The owner's update of an image with its preview was answered 200 and the
\* description written.
C22_Witness ==
    /\ resp.op = "update"
    /\ resp.status = 200
    /\ \E i \in DOMAIN media :
           /\ media[i].userId = resp.caller
           /\ media[i].description = "d1"
           /\ media[i].thumbnailUrl = BlobUrl(BlobName(resp.caller, THUMB \o <<"x">>))
           /\ media[i].blobUrl = BlobUrl(media[i].fileName)
           /\ media[i].fileSize = max_file_size_bytes

\* C23: a delete whose record has no preview URL never comes to the preview
\* delete; it has called delete_file with no key before the primary delete
\* and with the primary key alone after it, and its last step, the metadata
\* delete, removes no blob.
C23_OneStorageDelete ==
    [][\A s \in Slots :
          /\ (req'[s].op = "delete" /\ req'[s].doc.thumbnailUrl = NoneS) =>
                 /\ req'[s].pc \in {"del_primary", "del_meta"}
                 /\ req'[s].pc = "del_primary" => req'[s].dels = << >>
                 /\ req'[s].pc = "del_meta" => req'[s].dels = <<req'[s].doc.fileName>>
          /\ (/\ req[s].op = "delete"
              /\ req[s].doc.thumbnailUrl = NoneS
              /\ req'[s] # req[s]) =>
                 /\ req[s].pc = "del_primary" => req'[s].pc \in {"del_meta", "idle"}
                 /\ req[s].pc = "del_meta" => (req'[s].pc = "idle" /\ blobs' = blobs)]_vars

\* The delete of an image that has no preview called delete_file once, with
\* the primary key, and is at the metadata delete.
C23_Witness ==
    \E s \in Slots :
        /\ req[s].pc = "del_meta"
        /\ req[s].doc.mediaType = "image"
        /\ req[s].doc.thumbnailUrl = NoneS
        /\ req[s].dels = <<req[s].doc.fileName>>
        /\ req[s].doc.fileName \notin blobs

====
